---------------------------- MODULE Spec2Model ----------------------------
(***************************************************************************)
(* Model of the smov serial protocol engine (src/src/lib/mod.rs):          *)
(* the handshake of `communicate`, the worker loop it spawns, the mpsc     *)
(* command channel between caller and worker, and the C boundary           *)
(* (smov_connect, smov_set_speed, smov_get_error,                          *)
(* smov_drop_communication, convert_err).                                  *)
(*                                                                         *)
(* The serial device is the environment: every read returns a value the    *)
(* device chooses, and every transport operation may fail with an          *)
(* io::Error.  A failed write_all may have put a strict prefix of its      *)
(* bytes on the wire.                                                      *)
(***************************************************************************)
EXTENDS Integers, Sequences, FiniteSets, TLC

\* ------------------------------------------------------------------ bounds
\* Calls of smov_set_speed the caller makes in one run.
MaxSends == 3
\* Exchanges (command or heartbeat) the worker starts in one run.
MaxExchanges == 4

\* ------------------------------------------------------- environment sets
\* Device paths handed to smov_connect: one that can open, one that cannot,
\* one that is not valid UTF-8.
Paths == {"COM_FAKE", "nodev", "bad_utf8"}
ValidUtf8(p) == p # "bad_utf8"
DeviceExists(p) == p = "COM_FAKE"

\* b"smov"
MAGIC == <<115, 109, 111, 118>>
\* 4-byte answers a device may give to the identity request.
Idents == {MAGIC, <<115, 109, 111, 0>>, <<0, 0, 0, 0>>}
\* 2-byte answers a device may give as its version.
VersionBytes == {<<0, 0>>, <<0, 1>>, <<1, 0>>}
\* 1-byte answers a device may give to a heartbeat or a command.
Responses == {0, 1, 255}
\* Speeds the caller sends (i16).
Speeds == {-1, 300}
\* io::Error values by their raw_os_error(): <<>> is None (a timeout made by
\* the serialport crate), <<32>> is Some(EPIPE).
IoErrors == {<<>>, <<32>>}

\* ------------------------------------------------------------ error values
\* enum Error: kind, the u16 of UnsupportedVersion, the io::Error of Other.
Err(k, v, e) == [kind |-> k, v |-> v, e |-> e]
WrongDevice == Err("WrongDevice", 0, <<>>)
Disconnected == Err("Disconnected", 0, <<>>)
UnsupportedVersion(v) == Err("UnsupportedVersion", v, <<>>)
InvalidSpeed == Err("InvalidSpeed", 0, <<>>)
Open == Err("Open", 0, <<>>)
Other(e) == Err("Other", 0, e)
\* Ok(()) of the worker, and the absence of a result.
OkUnit == Err("Ok", 0, <<>>)
NoResult == Err("None", 0, <<>>)

\* struct error_t
error_t(t, p) == [tag |-> t, payload |-> p]
error_t_ok == error_t("OK", 0)
NoError_t == error_t("NONE", 0)

\* Option<i32>::unwrap_or(0) on raw_os_error()
unwrap_or_0(e) == IF e = <<>> THEN 0 ELSE e[1]

convert_err(e) ==
    CASE e.kind = "WrongDevice" -> error_t("WRONG_DEVICE", 0)
      [] e.kind = "Disconnected" -> error_t("DISCONNECTED", 0)
      [] e.kind = "UnsupportedVersion" -> error_t("UNSUPPORTED_VERSION", e.v)
      [] e.kind = "InvalidSpeed" -> error_t("INVALID_SPEED", 0)
      [] e.kind = "Open" -> error_t("OPEN", 0)
      [] e.kind = "Other" -> error_t("COMMUNICATION", unwrap_or_0(e.e))

\* thread::Result<Result<(), Error>> returned by JoinHandle::join: Ok(r) of a
\* worker that returned r, Err(_) of a worker that panicked.
JoinOk(r) == [panic |-> FALSE, res |-> r]
JoinErr == [panic |-> TRUE, res |-> NoResult]

\* The match of smov_get_error on the result of join.
get_error(j) ==
    IF j.panic THEN error_t("COMMUNICATION", 0)
    ELSE IF j.res = OkUnit THEN error_t_ok
    ELSE convert_err(j.res)

\* No error_t came back from a boundary call: the process aborted, or a
\* panic unwound through the extern "C" frame.
Aborted == error_t("ABORT", 0)

\* u16::from_be_bytes
u16_from_be_bytes(b) == b[1] * 256 + b[2]
\* Mutant of i16_to_be_bytes: the bytes in little-endian order.
i16_to_le_bytes(s) == << (s % 65536) % 256, (s % 65536) \div 256 >>
\* i16::to_be_bytes
i16_to_be_bytes(s) == << (s % 65536) \div 256, (s % 65536) % 256 >>

\* ------------------------------------------------------------------- state
VARIABLES
    hpc,        \* position of the caller inside smov_connect / communicate
    path,       \* the device path smov_connect was called with ("": not yet)
    port,       \* the serial port: "unopened", "open_failed", "open",
                \* "closed"
    io,         \* every transport operation so far, in order
    version,    \* the version read in the handshake
    cerr,       \* the Error communicate returned (NoResult: none)
    connRes,    \* the error_t smov_connect returned (NoError_t: none)
    senderOut,  \* *sender: "unwritten", "boxed", "released"
    handleOut,  \* *handle: "unwritten", "boxed", "consumed"
    txAlive,    \* the Sender of the channel exists
    rxAlive,    \* the Receiver of the channel exists
    chan,       \* the values queued in the channel
    wpc,        \* position of the worker: "none", "recv", "cmd_write",
                \* "cmd_read", "hb_write", "hb_read", "done"
    speed,      \* the worker's local `speed`
    wres,       \* the worker's return value
    sent,       \* every smov_set_speed call so far: value, returned bool,
                \* and whether the worker had terminated at the call
    getRes,     \* the error_t smov_get_error returned (NoError_t: none)
    released,   \* what held when the sender was released (<<>>: not yet)
    getRes2,    \* what a second smov_get_error on the same handle returned
    joins,      \* calls of JoinHandle::join made on the worker's handle
    jh,         \* join results handed to smov_get_error's match (a pair)
    jr,         \* the error_t the match gave for each (<<>>: not yet)
    ports,      \* what serialport::available_ports() returns
    devices,    \* the array smov_list_devices returned
    dev_count,  \* the local dev_count of smov_free_devices
    frees,      \* per string of the array: times it was released
    arrayFreed, \* slots the array allocation was released with (<<>>: not)
    dpc,        \* position in smov_list_devices / smov_free_devices
    cv,         \* a speed received by the worker
    cframe      \* the frame the worker built for it (<<>>: not yet)

joinVars == << jh, jr >>
devVars == << ports, devices, dev_count, frees, arrayFreed, dpc >>
codecVars == << cv, cframe >>
sideVars == << joinVars, devVars, codecVars >>

\* The state of one connection.
connVars == << hpc, path, port, io, version, cerr, connRes, senderOut,
               handleOut, txAlive, rxAlive, chan, wpc, speed, wres, sent,
               getRes, released, getRes2, joins >>

vars == << connVars, sideVars >>

callerVars == << hpc, path, version, cerr, connRes, senderOut, handleOut >>
workerVars == << wpc, speed, wres >>
apiVars == << sent, getRes, released, getRes2, joins >>

\* A transport operation as logged: a write with the bytes that reached the
\* wire, or a read with the bytes returned.
WriteOp(bytes, ok) == [op |-> "w", data |-> bytes, ok |-> ok]
ReadOp(bytes, ok) == [op |-> "r", data |-> bytes, ok |-> ok]

\* The operations of a handshake that reached Ready.
HandshakeOps == 4
\* The worker's operations, in order.
WorkerOps == SubSeq(io, HandshakeOps + 1, Len(io))

\* The connection before smov_connect is called.
ConnectionIdle ==
    /\ hpc = "start"
    /\ path = ""
    /\ port = "unopened"
    /\ io = <<>>
    /\ version = 0
    /\ cerr = NoResult
    /\ connRes = NoError_t
    /\ senderOut = "unwritten"
    /\ handleOut = "unwritten"
    /\ txAlive = FALSE
    /\ rxAlive = FALSE
    /\ chan = <<>>
    /\ wpc = "none"
    /\ speed = 0
    /\ wres = NoResult
    /\ sent = <<>>
    /\ getRes = NoError_t
    /\ released = <<>>
    /\ getRes2 = NoError_t
    /\ joins = 0

\* No join result is being matched.
JoinIdle ==
    /\ jh = <<>>
    /\ jr = <<>>

\* Result<Vec<SerialPortInfo>>: Err, or the port names.
PortsErr == [ok |-> FALSE, names |-> <<>>]
PortsOk(names) == [ok |-> TRUE, names |-> names]
\* *mut *mut c_char: null, or an allocation of `slots` pointers whose first
\* Len(strs) point to the C strings strs and whose last is null.
NullArray == [null |-> TRUE, strs |-> <<>>, slots |-> 0]
Array(strs) == [null |-> FALSE, strs |-> strs, slots |-> Len(strs) + 1]

\* smov_list_devices has not been called.
DevIdle ==
    /\ ports = PortsErr
    /\ devices = NullArray
    /\ dev_count = 0
    /\ frees = <<>>
    /\ arrayFreed = <<>>
    /\ dpc = "idle"

\* No speed is being framed.
CodecIdle ==
    /\ cv = 0
    /\ cframe = <<>>

Init ==
    /\ ConnectionIdle
    /\ JoinIdle
    /\ DevIdle
    /\ CodecIdle

\* --------------------------------------------------------------- handshake
\* `?` / `return Err(e)` inside communicate, seen through smov_connect
\* (Err(e) => convert_err(e)): the error is converted, nothing handed out.
ConnectErr(e) ==
    /\ hpc' = "failed"
    /\ cerr' = e
    /\ connRes' = convert_err(e)
    /\ UNCHANGED << version, senderOut, handleOut >>

\* The same once the port is open: `serial` goes out of scope and closes.
HandshakeFail(e) ==
    /\ ConnectErr(e)
    /\ port' = "closed"

\* Mutant of HandshakeWrite: the io::Error of a failed write is ignored and
\* the handshake goes on.
HandshakeWrite_ignore_err(bytes, next) ==
    /\ \/ io' = Append(io, WriteOp(bytes, TRUE))
       \/ \E k \in 0..(Len(bytes) - 1) :
             io' = Append(io, WriteOp(SubSeq(bytes, 1, k), FALSE))
    /\ hpc' = next
    /\ UNCHANGED << port, version, cerr, connRes, senderOut, handleOut >>

\* serial.write_all(bytes)? in the handshake
HandshakeWrite(bytes, next) ==
    \/ /\ io' = Append(io, WriteOp(bytes, TRUE))
       /\ hpc' = next
       /\ UNCHANGED << port, version, cerr, connRes, senderOut, handleOut >>
    \/ \E k \in 0..(Len(bytes) - 1), e \in IoErrors :
          /\ io' = Append(io, WriteOp(SubSeq(bytes, 1, k), FALSE))
          /\ HandshakeFail(Other(e))

\* Mutant of smov_connect_open: the out-pointers are written (with dangling
\* boxes) even when communicate returned the Open error.
smov_connect_open_writes_out ==
    /\ hpc = "start"
    /\ \E p \in Paths :
          /\ path' = p
          /\ \/ /\ ~ValidUtf8(p)
                /\ hpc' = "panicked"
                /\ UNCHANGED << port, version, cerr, connRes,
                                senderOut, handleOut >>
             \/ /\ ValidUtf8(p)
                /\ DeviceExists(p)
                /\ hpc' = "opened"
                /\ port' = "open"
                /\ UNCHANGED << version, cerr, connRes, senderOut, handleOut >>
             \/ /\ ValidUtf8(p)
                /\ port' = "open_failed"
                /\ hpc' = "failed"
                /\ cerr' = Open
                /\ connRes' = convert_err(Open)
                /\ senderOut' = "boxed"
                /\ handleOut' = "boxed"
                /\ UNCHANGED version
    /\ UNCHANGED << io, txAlive, rxAlive, chan, workerVars, apiVars, sideVars >>

\* smov_connect: CStr -> &str, then communicate: open_with_settings
\* and the settle sleep.
smov_connect_open ==
    /\ hpc = "start"
    /\ \E p \in Paths :
          /\ path' = p
          /\ \/ /\ ~ValidUtf8(p)
                /\ hpc' = "panicked"
                /\ UNCHANGED << port, version, cerr, connRes,
                                senderOut, handleOut >>
             \/ /\ ValidUtf8(p)
                /\ DeviceExists(p)
                /\ hpc' = "opened"
                /\ port' = "open"
                /\ UNCHANGED << version, cerr, connRes, senderOut, handleOut >>
             \/ /\ ValidUtf8(p)
                /\ port' = "open_failed"
                /\ ConnectErr(Open)
    /\ UNCHANGED << io, txAlive, rxAlive, chan, workerVars, apiVars, sideVars >>

\* serial.write_all(b"smov")?
communicate_write_magic ==
    /\ hpc = "opened"
    /\ HandshakeWrite(MAGIC, "id_sent")
    /\ UNCHANGED << path, txAlive, rxAlive, chan, workerVars, apiVars, sideVars >>

\* Mutant of communicate_read_ident: the identity is read but not compared.
communicate_read_ident_unchecked ==
    /\ hpc = "id_sent"
    /\ \/ \E buf \in Idents :
             /\ io' = Append(io, ReadOp(buf, TRUE))
             /\ hpc' = "id_ok"
             /\ UNCHANGED << port, version, cerr, connRes, senderOut, handleOut >>
       \/ \E e \in IoErrors :
             /\ io' = Append(io, ReadOp(<<>>, FALSE))
             /\ HandshakeFail(Other(e))
    /\ UNCHANGED << path, txAlive, rxAlive, chan, workerVars, apiVars, sideVars >>

\* serial.read_exact(&mut buf)?; if &buf != b"smov" { return Err(WrongDevice) }
communicate_read_ident ==
    /\ hpc = "id_sent"
    /\ \/ \E buf \in Idents :
             /\ io' = Append(io, ReadOp(buf, TRUE))
             /\ IF buf # MAGIC
                  THEN HandshakeFail(WrongDevice)
                  ELSE /\ hpc' = "id_ok"
                       /\ UNCHANGED << port, version, cerr, connRes,
                                       senderOut, handleOut >>
       \/ \E e \in IoErrors :
             /\ io' = Append(io, ReadOp(<<>>, FALSE))
             /\ HandshakeFail(Other(e))
    /\ UNCHANGED << path, txAlive, rxAlive, chan, workerVars, apiVars, sideVars >>

\* serial.read_exact(&mut version)?; u16::from_be_bytes(version)
communicate_read_version ==
    /\ hpc = "id_ok"
    /\ \/ \E vb \in VersionBytes :
             /\ io' = Append(io, ReadOp(vb, TRUE))
             /\ version' = u16_from_be_bytes(vb)
             /\ hpc' = "ver_read"
             /\ UNCHANGED << port, cerr, connRes, senderOut, handleOut >>
       \/ \E e \in IoErrors :
             /\ io' = Append(io, ReadOp(<<>>, FALSE))
             /\ HandshakeFail(Other(e))
    /\ UNCHANGED << path, txAlive, rxAlive, chan, workerVars, apiVars, sideVars >>

\* Mutant of communicate_answer_version: every version is acknowledged.
communicate_answer_version_any ==
    /\ hpc = "ver_read"
    /\ HandshakeWrite(<<0>>, "acked")
    /\ UNCHANGED << path, txAlive, rxAlive, chan, workerVars, apiVars, sideVars >>

\* if version == 0 { write_all(&[0x00])? }
\* else { write_all(&[0x01])?; return Err(UnsupportedVersion(version)) }
communicate_answer_version ==
    /\ hpc = "ver_read"
    /\ \/ /\ version = 0
          /\ HandshakeWrite(<<0>>, "acked")
       \/ /\ version # 0
          /\ HandshakeWrite(<<1>>, "rejecting")
    /\ UNCHANGED << path, txAlive, rxAlive, chan, workerVars, apiVars, sideVars >>

\* return Err(Error::UnsupportedVersion(version))
communicate_reject ==
    /\ hpc = "rejecting"
    /\ HandshakeFail(UnsupportedVersion(version))
    /\ UNCHANGED << path, io, txAlive, rxAlive, chan, workerVars, apiVars, sideVars >>

\* Mutant of communicate_spawn: the worker is spawned as soon as the version
\* has been read as 0, before the acknowledgement is written.
communicate_spawn_early ==
    /\ hpc = "ver_read"
    /\ version = 0
    /\ hpc' = "spawned"
    /\ txAlive' = TRUE
    /\ rxAlive' = TRUE
    /\ chan' = <<>>
    /\ wpc' = "recv"
    /\ UNCHANGED << path, port, io, version, cerr, connRes, senderOut,
                    handleOut, speed, wres, apiVars, sideVars >>

\* mpsc::channel(); thread::spawn(move || loop {...}): the port and the
\* receiver move into the worker.
communicate_spawn ==
    /\ hpc = "acked"
    /\ hpc' = "spawned"
    /\ txAlive' = TRUE
    /\ rxAlive' = TRUE
    /\ chan' = <<>>
    /\ wpc' = "recv"
    /\ UNCHANGED << path, port, io, version, cerr, connRes, senderOut,
                    handleOut, speed, wres, apiVars, sideVars >>

\* Ok((tx, handle)) back in smov_connect: both out-pointers written.
smov_connect_return ==
    /\ hpc = "spawned"
    /\ hpc' = "returned"
    /\ senderOut' = "boxed"
    /\ handleOut' = "boxed"
    /\ connRes' = error_t_ok
    /\ UNCHANGED << path, port, io, version, cerr, txAlive, rxAlive, chan,
                    workerVars, apiVars, sideVars >>

\* ------------------------------------------------------------------ worker
\* Mutant of WorkerReturn: the port is kept open (leaked) when the worker
\* returns.
WorkerReturn_leaks_port(r) ==
    /\ wpc' = "done"
    /\ wres' = r
    /\ rxAlive' = FALSE
    /\ UNCHANGED << speed, port >>

\* The worker closure returns r: the receiver and the port are dropped.
WorkerReturn(r) ==
    /\ wpc' = "done"
    /\ wres' = r
    /\ rxAlive' = FALSE
    /\ port' = "closed"
    /\ UNCHANGED speed

\* The worker may start another exchange (bound of the model).
MayExchange == Len(WorkerOps) < 2 * MaxExchanges

\* Mutant of worker_recv: the Timeout arm returns Ok(()) like the closed
\* channel does.
worker_recv_timeout_exits ==
    /\ wpc = "recv"
    /\ \/ /\ chan # <<>>
          /\ MayExchange
          /\ speed' = Head(chan)
          /\ chan' = Tail(chan)
          /\ wpc' = "cmd_write"
          /\ UNCHANGED << wres, rxAlive, port >>
       \/ /\ chan = <<>>
          /\ WorkerReturn(OkUnit)
          /\ UNCHANGED chan
    /\ UNCHANGED << io, txAlive, callerVars, apiVars, sideVars >>

\* Mutant of worker_recv: the closed channel is reported as an error.
worker_recv_closed_is_error ==
    /\ wpc = "recv"
    /\ \/ /\ chan # <<>>
          /\ MayExchange
          /\ speed' = Head(chan)
          /\ chan' = Tail(chan)
          /\ wpc' = "cmd_write"
          /\ UNCHANGED << wres, rxAlive, port >>
       \/ /\ chan = <<>>
          /\ txAlive
          /\ MayExchange
          /\ wpc' = "hb_write"
          /\ UNCHANGED << speed, chan, wres, rxAlive, port >>
       \/ /\ chan = <<>>
          /\ ~txAlive
          /\ WorkerReturn(Disconnected)
          /\ UNCHANGED chan
    /\ UNCHANGED << io, txAlive, callerVars, apiVars, sideVars >>

\* Mutant of worker_recv: a dropped sender ends the loop even while values
\* are queued.
worker_recv_closed_first ==
    /\ wpc = "recv"
    /\ \/ /\ chan # <<>>
          /\ txAlive
          /\ MayExchange
          /\ speed' = Head(chan)
          /\ chan' = Tail(chan)
          /\ wpc' = "cmd_write"
          /\ UNCHANGED << wres, rxAlive, port >>
       \/ /\ chan = <<>>
          /\ txAlive
          /\ MayExchange
          /\ wpc' = "hb_write"
          /\ UNCHANGED << speed, chan, wres, rxAlive, port >>
       \/ /\ ~txAlive
          /\ WorkerReturn(OkUnit)
          /\ UNCHANGED chan
    /\ UNCHANGED << io, txAlive, callerVars, apiVars, sideVars >>

\* rx.recv_timeout(100 ms): a queued value, Timeout while a sender lives,
\* Disconnected once the queue is empty and the sender is gone.
worker_recv ==
    /\ wpc = "recv"
    /\ \/ /\ chan # <<>>
          /\ MayExchange
          /\ speed' = Head(chan)
          /\ chan' = Tail(chan)
          /\ wpc' = "cmd_write"
          /\ UNCHANGED << wres, rxAlive, port >>
       \/ /\ chan = <<>>
          /\ txAlive
          /\ MayExchange
          /\ wpc' = "hb_write"
          /\ UNCHANGED << speed, chan, wres, rxAlive, port >>
       \/ /\ chan = <<>>
          /\ ~txAlive
          /\ WorkerReturn(OkUnit)
          /\ UNCHANGED chan
    /\ UNCHANGED << io, txAlive, callerVars, apiVars, sideVars >>

\* Mutant of WorkerWrite: a failed write is retried instead of returned.
WorkerWrite_retry(bytes, next) ==
    \/ /\ io' = Append(io, WriteOp(bytes, TRUE))
       /\ wpc' = next
       /\ UNCHANGED << speed, wres, rxAlive, port >>
    \/ \E k \in 0..(Len(bytes) - 1) :
          /\ Len(WorkerOps) < 2 * MaxExchanges + 2
          /\ io' = Append(io, WriteOp(SubSeq(bytes, 1, k), FALSE))
          /\ UNCHANGED << wpc, speed, wres, rxAlive, port >>

\* serial.write_all(bytes)? in the worker
WorkerWrite(bytes, next) ==
    \/ /\ io' = Append(io, WriteOp(bytes, TRUE))
       /\ wpc' = next
       /\ UNCHANGED << speed, wres, rxAlive, port >>
    \/ \E k \in 0..(Len(bytes) - 1), e \in IoErrors :
          /\ io' = Append(io, WriteOp(SubSeq(bytes, 1, k), FALSE))
          /\ WorkerReturn(Other(e))

\* Mutant of WorkerRead: a non-zero response is ignored and the loop goes on.
WorkerRead_ignores_reject(bad) ==
    \/ \E r \in Responses :
          /\ io' = Append(io, ReadOp(<<r>>, TRUE))
          /\ wpc' = "recv"
          /\ UNCHANGED << speed, wres, rxAlive, port >>
    \/ \E e \in IoErrors :
          /\ io' = Append(io, ReadOp(<<>>, FALSE))
          /\ WorkerReturn(Other(e))

\* serial.read_exact(&mut result)?; if result[0] != 0 { return Err(bad) }
WorkerRead(bad) ==
    \/ \E r \in Responses :
          /\ io' = Append(io, ReadOp(<<r>>, TRUE))
          /\ IF r # 0
               THEN WorkerReturn(bad)
               ELSE /\ wpc' = "recv"
                    /\ UNCHANGED << speed, wres, rxAlive, port >>
    \/ \E e \in IoErrors :
          /\ io' = Append(io, ReadOp(<<>>, FALSE))
          /\ WorkerReturn(Other(e))

\* The frame of a speed command.
CommandFrame(s) == <<1>> \o i16_to_be_bytes(s)
\* The frame of a heartbeat.
HeartbeatFrame == <<0>>

worker_cmd_write ==
    /\ wpc = "cmd_write"
    /\ WorkerWrite(CommandFrame(speed), "cmd_read")
    /\ UNCHANGED << txAlive, chan, callerVars, apiVars, sideVars >>

\* Mutant of worker_cmd_read: the response is not read before the next
\* receive (commands are pipelined).
worker_cmd_read_pipelined ==
    /\ wpc = "cmd_read"
    /\ wpc' = "recv"
    /\ UNCHANGED << port, io, rxAlive, speed, wres, txAlive, chan,
                    callerVars, apiVars, sideVars >>

worker_cmd_read ==
    /\ wpc = "cmd_read"
    /\ WorkerRead(InvalidSpeed)
    /\ UNCHANGED << txAlive, chan, callerVars, apiVars, sideVars >>

worker_hb_write ==
    /\ wpc = "hb_write"
    /\ WorkerWrite(HeartbeatFrame, "hb_read")
    /\ UNCHANGED << txAlive, chan, callerVars, apiVars, sideVars >>

\* Mutant of worker_hb_read: a rejected heartbeat returns the error of a
\* rejected command.
worker_hb_read_wrong_error ==
    /\ wpc = "hb_read"
    /\ WorkerRead(InvalidSpeed)
    /\ UNCHANGED << txAlive, chan, callerVars, apiVars, sideVars >>

worker_hb_read ==
    /\ wpc = "hb_read"
    /\ WorkerRead(Disconnected)
    /\ UNCHANGED << txAlive, chan, callerVars, apiVars, sideVars >>

\* ---------------------------------------------------------------- boundary
\* Mutant of smov_set_speed: the result of send is dropped and true is
\* returned.
smov_set_speed_always_true ==
    /\ senderOut = "boxed"
    /\ Len(sent) < MaxSends
    /\ \E val \in Speeds :
          /\ sent' = Append(sent, [val |-> val, ok |-> TRUE,
                                   done |-> (wpc = "done")])
          /\ chan' = IF rxAlive THEN Append(chan, val) ELSE chan
    /\ UNCHANGED << port, io, txAlive, rxAlive, callerVars, workerVars,
                    getRes, released, getRes2, joins, sideVars >>

\* Mutant of smov_set_speed: a value sent replaces what is still queued (the
\* channel keeps the latest value only).
smov_set_speed_coalesce ==
    /\ senderOut = "boxed"
    /\ Len(sent) < MaxSends
    /\ \E val \in Speeds :
          /\ sent' = Append(sent, [val |-> val, ok |-> rxAlive,
                                   done |-> (wpc = "done")])
          /\ chan' = IF rxAlive THEN << val >> ELSE chan
    /\ UNCHANGED << port, io, txAlive, rxAlive, callerVars, workerVars,
                    getRes, released, getRes2, joins, sideVars >>

\* smov_set_speed(sender, val): Sender::send(val).is_ok(); the value is
\* queued unless the receiver is gone.
smov_set_speed ==
    /\ senderOut = "boxed"
    /\ Len(sent) < MaxSends
    /\ \E val \in Speeds :
          /\ sent' = Append(sent, [val |-> val, ok |-> rxAlive,
                                   done |-> (wpc = "done")])
          /\ chan' = IF rxAlive THEN Append(chan, val) ELSE chan
    /\ UNCHANGED << port, io, txAlive, rxAlive, callerVars, workerVars,
                    getRes, released, getRes2, joins, sideVars >>

\* smov_drop_communication(sender): the boxed Sender is dropped.
smov_drop_communication ==
    /\ senderOut = "boxed"
    /\ senderOut' = "released"
    /\ txAlive' = FALSE
    /\ released' = << [ops |-> Len(io), pending |-> Len(chan), wpc |-> wpc] >>
    /\ UNCHANGED << hpc, path, port, io, version, cerr, connRes, handleOut,
                    rxAlive, chan, workerVars, sent, getRes, getRes2, joins, sideVars >>

\* smov_get_error(handle): join() returns once the worker has returned.
smov_get_error ==
    /\ handleOut = "boxed"
    /\ wpc = "done"
    /\ handleOut' = "consumed"
    /\ getRes' = get_error(JoinOk(wres))
    /\ joins' = joins + 1
    /\ UNCHANGED << hpc, path, port, io, version, cerr, connRes, senderOut,
                    txAlive, rxAlive, chan, workerVars, sent, released,
                    getRes2, sideVars >>

\* What a second smov_get_error(handle) with the same pointer can return.
\* The first call moved the JoinHandle out of *handle with ptr::read and
\* consumed it; the box still holds its bits, so the second call joins a
\* stale copy of the same handle, which is undefined behaviour: the call may
\* return the first result again, OK, or the code of the join-error arm, or
\* return nothing at all (the process aborts or a panic unwinds).
SecondJoinOutcomes ==
    {getRes, error_t_ok, get_error(JoinErr), Aborted}

\* smov_get_error(handle) called again with the pointer of a consumed handle.
smov_get_error_again ==
    /\ handleOut = "consumed"
    /\ getRes2 = NoError_t
    /\ joins' = joins + 1
    /\ getRes2' \in SecondJoinOutcomes
    /\ UNCHANGED << hpc, path, port, io, version, cerr, connRes, senderOut,
                    handleOut, txAlive, rxAlive, chan, workerVars, sent,
                    getRes, released, sideVars >>

Handshake ==
    \/ smov_connect_open
    \/ communicate_write_magic
    \/ communicate_read_ident
    \/ communicate_read_version
    \/ communicate_answer_version
    \/ communicate_reject
    \/ communicate_spawn
    \/ smov_connect_return

Worker ==
    \/ worker_recv
    \/ worker_cmd_write
    \/ worker_cmd_read
    \/ worker_hb_write
    \/ worker_hb_read

Caller ==
    \/ smov_set_speed
    \/ smov_drop_communication
    \/ smov_get_error
    \/ smov_get_error_again

Next == Handshake \/ Worker \/ Caller

Spec == Init /\ [][Next]_vars

\* ------------------------------------------- smov_get_error on join results
\* What a worker that returns can return: Ok(()) or one of the errors of its
\* loop.
WorkerResults ==
    {OkUnit, InvalidSpeed, Disconnected} \cup {Other(e) : e \in IoErrors}
\* What JoinHandle::join can return.
JoinResults == {JoinErr} \cup {JoinOk(r) : r \in WorkerResults}

\* Two handles, each with its join result, neither matched yet.
JoinInit ==
    /\ ConnectionIdle
    /\ DevIdle
    /\ CodecIdle
    /\ jh \in JoinResults \X JoinResults
    /\ jr = << NoError_t, NoError_t >>

\* smov_get_error on handle i: the match on its join result.
smov_get_error_match(i) ==
    /\ jr[i] = NoError_t
    /\ jr' = [jr EXCEPT ![i] = get_error(jh[i])]
    /\ UNCHANGED << jh, connVars, devVars, codecVars >>

JoinNext == \E i \in {1, 2} : smov_get_error_match(i)

JoinSpec == JoinInit /\ [][JoinNext]_vars

\* ------------------------------------ smov_list_devices / smov_free_devices
\* Devices listed at most (bound of the model).
MaxDevices == 3
\* Port names: two that convert to a C string, one with an interior NUL.
PortNames == {"ttyUSB0", "ttyACM0", "tty_NUL_x"}
\* CString::new(name) is Ok.
IsCString(name) == name # "tty_NUL_x"

\* The sequences over S of length at most n.
SeqsUpTo(S, n) == UNION {[1..k -> S] : k \in 0..n}

DevInit ==
    /\ ConnectionIdle
    /\ JoinIdle
    /\ CodecIdle
    /\ ports \in {PortsErr} \cup {PortsOk(s) : s \in SeqsUpTo(PortNames, MaxDevices)}
    /\ devices = NullArray
    /\ dev_count = 0
    /\ frees = <<>>
    /\ arrayFreed = <<>>
    /\ dpc = "idle"

\* smov_list_devices(): null if available_ports fails; a panic of
\* CString::new(..).unwrap() on a name with an interior NUL; otherwise the
\* boxed slice of the strings and a terminating null.
smov_list_devices ==
    /\ dpc = "idle"
    /\ \/ /\ ~ports.ok
          /\ dpc' = "null"
          /\ UNCHANGED << devices, frees >>
       \/ /\ ports.ok
          /\ \E i \in 1..Len(ports.names) : ~IsCString(ports.names[i])
          /\ dpc' = "panicked"
          /\ UNCHANGED << devices, frees >>
       \/ /\ ports.ok
          /\ \A i \in 1..Len(ports.names) : IsCString(ports.names[i])
          /\ devices' = Array(ports.names)
          /\ frees' = [i \in 1..Len(ports.names) |-> 0]
          /\ dpc' = "listed"
    /\ UNCHANGED << ports, dev_count, arrayFreed, connVars, joinVars,
                    codecVars >>

\* smov_free_devices(devices): let mut dev_count = 0
smov_free_devices_enter ==
    /\ dpc = "listed"
    /\ dev_count' = 0
    /\ dpc' = "freeing"
    /\ UNCHANGED << ports, devices, frees, arrayFreed, connVars, joinVars,
                    codecVars >>

\* while *devices.add(dev_count) != null {
\*     drop(CString::from_raw(*devices)); dev_count += 1 }
\* The string released is the one *devices points to, the first.  Releasing
\* it again is a double free: the allocator aborts, or the call goes on.
smov_free_devices_loop ==
    /\ dpc = "freeing"
    /\ dev_count < Len(devices.strs)
    /\ frees' = [frees EXCEPT ![1] = @ + 1]
    /\ dev_count' = dev_count + 1
    /\ \/ /\ dpc' = "freeing"
       \/ /\ frees[1] >= 1
          /\ dpc' = "aborted"
    /\ UNCHANGED << ports, devices, arrayFreed, connVars, joinVars,
                    codecVars >>

\* devs = from_raw_parts_mut(devices, dev_count); drop(Box::from_raw(devs)):
\* the allocation is released as a slice of dev_count slots.
smov_free_devices_exit ==
    /\ dpc = "freeing"
    /\ dev_count = Len(devices.strs)
    /\ arrayFreed' = << dev_count >>
    /\ dpc' = "freed"
    /\ UNCHANGED << ports, devices, dev_count, frees, connVars, joinVars,
                    codecVars >>

DevNext ==
    \/ smov_list_devices
    \/ smov_free_devices_enter
    \/ smov_free_devices_loop
    \/ smov_free_devices_exit

DevSpec == DevInit /\ [][DevNext]_vars

\* --------------------------------------------------- the frame of a speed
\* The values of i16.
I16 == -32768..32767

CodecInit ==
    /\ ConnectionIdle
    /\ JoinIdle
    /\ DevIdle
    /\ cv \in I16
    /\ cframe = <<>>

\* Ok(speed) arm of the worker: the 3 bytes handed to write_all.
worker_frame_speed ==
    /\ cframe = <<>>
    /\ cframe' = CommandFrame(cv)
    /\ UNCHANGED << cv, connVars, joinVars, devVars >>

CodecNext == worker_frame_speed

CodecSpec == CodecInit /\ [][CodecNext]_vars

\* The worker is scheduled and every blocking call of its loop returns
\* (recv_timeout after 100 ms, read_exact after the 1000 ms port timeout).
FairSpec == Spec /\ WF_vars(Worker)

\* ----------------------------------------------------------------- helpers
Last(s) == s[Len(s)]

RECURSIVE WrittenBytes(_)
\* The bytes that reached the wire in the operations ops, in order.
WrittenBytes(ops) ==
    IF ops = <<>> THEN <<>>
    ELSE (IF Head(ops).op = "w" THEN Head(ops).data ELSE <<>>)
             \o WrittenBytes(Tail(ops))

\* The handshake reached Ready: the worker exists.
Ready == hpc \in {"spawned", "returned"}

\* Nothing was handed out to the caller and no worker or channel exists.
NothingProduced ==
    /\ senderOut = "unwritten"
    /\ handleOut = "unwritten"
    /\ wpc = "none"
    /\ ~txAlive
    /\ ~rxAlive
    /\ sent = <<>>

\* Requests written by the worker and responses read by it.
Requests == {i \in 1..Len(WorkerOps) : WorkerOps[i].op = "w"}
ResponsesRead == {i \in 1..Len(WorkerOps) : WorkerOps[i].op = "r"}
Outstanding == Cardinality(Requests) - Cardinality(ResponsesRead)

\* Every operation of the worker so far succeeded and every response was 0.
AllAnsweredZero ==
    \A i \in 1..Len(WorkerOps) :
        /\ WorkerOps[i].ok
        /\ WorkerOps[i].op = "r" => WorkerOps[i].data = <<0>>

\* ------------------------------------------------------------------ claims

\* C1: the worker loop is half-duplex.  At most one request (heartbeat or
\* command frame) is outstanding in every reachable state; a request that
\* was written is followed by a read of one response byte, never by another
\* write; and whenever the worker is at a receive attempt or about to write,
\* no request is outstanding.  The only requests are the heartbeat byte 0x00
\* and 3-byte command frames.
C1_HalfDuplex ==
    /\ Outstanding \in {0, 1}
    /\ \A i \in 1..Len(WorkerOps) :
          /\ (i % 2 = 1) <=> (WorkerOps[i].op = "w")
          /\ (WorkerOps[i].op = "w" /\ WorkerOps[i].ok) =>
                \/ WorkerOps[i].data = HeartbeatFrame
                \/ /\ Len(WorkerOps[i].data) = 3
                   /\ WorkerOps[i].data[1] = 1
          /\ (WorkerOps[i].op = "r" /\ WorkerOps[i].ok) =>
                Len(WorkerOps[i].data) = 1
          /\ ~WorkerOps[i].ok => i = Len(WorkerOps)
    /\ wpc \in {"recv", "cmd_write", "hb_write"} => Outstanding = 0
    /\ wpc \in {"cmd_read", "hb_read"} => Outstanding = 1

\* C1 witness: a command is queued by the caller while the worker, after a
\* completed exchange, has a request outstanding.
C1_Witness ==
    /\ wpc = "cmd_read"
    /\ chan # <<>>
    /\ Len(WorkerOps) >= 3
    /\ Outstanding = 1

\* C2: once the identity matched and the version v was read: if v # 0 the
\* only thing the handshake does next is write the single byte 0x01, it
\* returns UnsupportedVersion(v) (error_t UNSUPPORTED_VERSION, payload v)
\* when that write succeeded, and no worker, channel or handle ever exists;
\* if v = 0 it writes the single byte 0x00 and, that write having succeeded,
\* goes on to Ready, where the channel exists and the worker is spawned.
\* (A failed write of the answer byte is the I/O failure of C9.)
C2_VersionCheck ==
    (Len(io) >= 3 /\ io[3].ok) =>
        LET v == u16_from_be_bytes(io[3].data) IN
        /\ io[2] = ReadOp(MAGIC, TRUE)
        /\ version = v
        /\ v # 0 =>
              /\ hpc \in {"ver_read", "rejecting", "failed"}
              /\ NothingProduced
              /\ Len(io) <= 4
              /\ hpc = "ver_read" <=> Len(io) = 3
              /\ Len(io) = 4 =>
                    /\ io[4].op = "w"
                    /\ io[4].data = (IF io[4].ok THEN <<1>> ELSE <<>>)
              /\ (hpc = "failed" /\ io[4].ok) =>
                    /\ cerr = UnsupportedVersion(v)
                    /\ connRes = error_t("UNSUPPORTED_VERSION", v)
              /\ hpc = "rejecting" => ENABLED communicate_reject
        /\ v = 0 =>
              /\ cerr.kind # "UnsupportedVersion"
              /\ hpc = "ver_read" <=> Len(io) = 3
              /\ Len(io) >= 4 =>
                    /\ io[4].op = "w"
                    /\ io[4].data = (IF io[4].ok THEN <<0>> ELSE <<>>)
              /\ (Len(io) >= 4 /\ io[4].ok) =>
                    hpc \in {"acked", "spawned", "returned"}
              /\ hpc = "acked" => ENABLED communicate_spawn
              /\ Ready => (wpc # "none" /\ (txAlive \/ senderOut = "released"))

\* C2 witness: version 256 was rejected and reported with its payload.
C2_Witness ==
    /\ hpc = "failed"
    /\ Len(io) = 4
    /\ io[3] = ReadOp(<<1, 0>>, TRUE)
    /\ io[4] = WriteOp(<<1>>, TRUE)
    /\ connRes = error_t("UNSUPPORTED_VERSION", 256)

\* C3: when the 4 identity bytes read differ from "smov", the handshake has
\* failed with WrongDevice (error_t WRONG_DEVICE), the bytes written to the
\* transport are exactly "smov", the identity read is the last transport
\* operation (the version is never read), and nothing was produced.
C3_WrongDevice ==
    (Len(io) >= 2 /\ io[2].ok /\ io[2].data # MAGIC) =>
        /\ hpc = "failed"
        /\ cerr = WrongDevice
        /\ connRes = error_t("WRONG_DEVICE", 0)
        /\ Len(io) = 2
        /\ io[1] = WriteOp(MAGIC, TRUE)
        /\ WrittenBytes(io) = MAGIC
        /\ NothingProduced

\* C3 witness: a device answering "smo\0" was refused.
C3_Witness ==
    /\ Len(io) = 2
    /\ io[2] = ReadOp(<<115, 109, 111, 0>>, TRUE)
    /\ cerr = WrongDevice

\* C4: while every operation of the worker succeeded and every response was
\* 0x00, the worker has not terminated as long as the sender is held, and
\* every smov_set_speed call returned true.
C4_AlwaysZero ==
    (Ready /\ AllAnsweredZero) =>
        /\ txAlive => (wpc # "done" /\ rxAlive)
        /\ \A i \in 1..Len(sent) : sent[i].ok

\* C4 witness: two speeds sent and accepted, two exchanges answered 0x00,
\* sender still held and the worker running.
C4_Witness ==
    /\ Len(sent) >= 2
    /\ \A i \in 1..Len(sent) : sent[i].ok
    /\ Len(WorkerOps) >= 4
    /\ AllAnsweredZero
    /\ txAlive
    /\ wpc = "recv"

\* C5: a receive attempt times out only with an empty queue and a live
\* sender; the worker then performs exactly one heartbeat exchange before
\* the next receive attempt: one write of the single byte 0x00, then one
\* read of one byte.  A non-zero response makes the worker return
\* Disconnected; a terminated worker performs no further transport
\* operation; Disconnected comes from a heartbeat only; and smov_get_error
\* then returns the tag DISCONNECTED.
C5_Heartbeat ==
    /\ [][(wpc = "recv" /\ wpc' = "hb_write") =>
             (chan = <<>> /\ txAlive /\ io' = io)]_vars
    /\ [][(wpc = "hb_write" /\ wpc' # "hb_write") =>
             /\ Len(io') = Len(io) + 1
             /\ SubSeq(io', 1, Len(io)) = io
             /\ \/ /\ Last(io') = WriteOp(HeartbeatFrame, TRUE)
                   /\ wpc' = "hb_read"
                \/ /\ Last(io') = WriteOp(<<>>, FALSE)
                   /\ wpc' = "done"
                   /\ wres'.kind = "Other"]_vars
    /\ [][(wpc = "hb_read" /\ wpc' # "hb_read") =>
             /\ Len(io') = Len(io) + 1
             /\ SubSeq(io', 1, Len(io)) = io
             /\ Last(io').op = "r"
             /\ \/ /\ Last(io') = ReadOp(<<0>>, TRUE)
                   /\ wpc' = "recv"
                \/ /\ Last(io').ok
                   /\ Last(io').data # <<0>>
                   /\ wpc' = "done"
                   /\ wres' = Disconnected
                \/ /\ ~Last(io').ok
                   /\ wpc' = "done"
                   /\ wres'.kind = "Other"]_vars
    /\ [][(wpc \in {"hb_write", "hb_read"} /\ wpc' = wpc) => io' = io]_vars
    /\ [][wpc = "done" => (wpc' = "done" /\ io' = io /\ wres' = wres)]_vars
    /\ [](wres = Disconnected =>
             /\ wpc = "done"
             /\ Len(WorkerOps) >= 2
             /\ WorkerOps[Len(WorkerOps) - 1] = WriteOp(HeartbeatFrame, TRUE)
             /\ Last(io).op = "r" /\ Last(io).ok /\ Last(io).data # <<0>>
             /\ getRes \in {NoError_t, error_t("DISCONNECTED", 0)}
             /\ handleOut = "consumed" => getRes = error_t("DISCONNECTED", 0))

\* C5 witness: after an accepted heartbeat, a heartbeat was answered 0xFF
\* and smov_get_error returned DISCONNECTED.
C5_Witness ==
    /\ wres = Disconnected
    /\ Len(WorkerOps) >= 4
    /\ Last(io) = ReadOp(<<255>>, TRUE)
    /\ getRes = error_t("DISCONNECTED", 0)

\* Every transport operation after the first n succeeded, and every
\* response read after them was 0x00.
AnsweredZeroSince(n) ==
    \A i \in (n + 1)..Len(io) :
        /\ io[i].ok
        /\ io[i].op = "r" => io[i].data = <<0>>

\* The sender was released while the worker was running and the queue was
\* empty.
ReleasedIdle ==
    /\ released # <<>>
    /\ released[1].pending = 0
    /\ released[1].wpc # "done"

\* C6: if the sender is released (smov_drop_communication) while the worker
\* is running and no command is queued, the worker eventually terminates;
\* it starts no exchange after the release, and if the exchange in flight at
\* the release (if any) completes with response 0x00, the worker's result is
\* Ok(()) and smov_get_error returns OK, never an error.
C6_CleanShutdown ==
    /\ [](ReleasedIdle =>
             /\ Len(io) - released[1].ops <= 2
             /\ released[1].wpc = "recv" => Len(io) = released[1].ops
             /\ (wpc = "done" /\ AnsweredZeroSince(released[1].ops)) =>
                   /\ wres = OkUnit
                   /\ getRes \in {NoError_t, error_t_ok}
                   /\ handleOut = "consumed" => getRes = error_t_ok)
    /\ (ReleasedIdle ~> wpc = "done")

\* C6 witness: the sender was released during a heartbeat exchange, the
\* heartbeat was answered 0x00, and the worker returned Ok(()), reported as
\* OK by smov_get_error.
C6_Witness ==
    /\ ReleasedIdle
    /\ released[1].wpc = "hb_read"
    /\ Len(io) = released[1].ops + 1
    /\ wpc = "done"
    /\ wres = OkUnit
    /\ getRes = error_t_ok

\* C7: with no command ever sent, once a transport operation of the worker
\* has failed: the handshake had succeeded, every exchange before the failing
\* operation was a heartbeat answered 0x00 (n of them completed), the failing
\* operation is the last one on the transport (no retry, nothing written
\* after it), the worker has returned Error::Other, and smov_get_error
\* returns the tag COMMUNICATION.
C7_IoErrorAfterHeartbeats ==
    (sent = <<>> /\ \E i \in 1..Len(WorkerOps) : ~WorkerOps[i].ok) =>
        LET n == (Len(WorkerOps) - 1) \div 2 IN
        /\ Ready
        /\ hpc = "returned" => connRes = error_t_ok
        /\ ~Last(WorkerOps).ok
        /\ \A k \in 1..n :
              /\ WorkerOps[2 * k - 1] = WriteOp(HeartbeatFrame, TRUE)
              /\ WorkerOps[2 * k] = ReadOp(<<0>>, TRUE)
        /\ Len(WorkerOps) = 2 * n + 2 =>
              WorkerOps[2 * n + 1] = WriteOp(HeartbeatFrame, TRUE)
        /\ WrittenBytes(WorkerOps) \in {[j \in 1..m |-> 0] : m \in n..(n + 1)}
        /\ wpc = "done"
        /\ wres.kind = "Other"
        /\ getRes \in {NoError_t,
                       error_t("COMMUNICATION", unwrap_or_0(wres.e))}
        /\ handleOut = "consumed" => getRes.tag = "COMMUNICATION"

\* C7 witness: three heartbeats answered 0x00, then the write of the fourth
\* failed, and smov_get_error returned COMMUNICATION.
C7_Witness ==
    /\ sent = <<>>
    /\ hpc = "returned"
    /\ connRes = error_t_ok
    /\ Len(WorkerOps) = 7
    /\ \A i \in 1..6 : WorkerOps[i].ok
    /\ ~WorkerOps[7].ok
    /\ getRes.tag = "COMMUNICATION"

\* C8: when the open of the device path fails, smov_connect has returned
\* the Open error (error_t OPEN), no transport operation was performed, no
\* worker and no channel exist, and both out-pointers are unwritten; and
\* the Open error is returned in no other case.
C8_OpenFails ==
    /\ port = "open_failed" =>
          /\ hpc = "failed"
          /\ cerr = Open
          /\ connRes = error_t("OPEN", 0)
          /\ io = <<>>
          /\ chan = <<>>
          /\ NothingProduced
    /\ (cerr = Open \/ connRes.tag = "OPEN") => port = "open_failed"

\* C8 witness: an existing device that could not be opened.
C8_Witness ==
    /\ port = "open_failed"
    /\ path = "COM_FAKE"
    /\ connRes = error_t("OPEN", 0)

\* C9: when a transport operation of the handshake (identity write, identity
\* read, version read, acknowledgement or rejection write) has failed, that
\* operation is the last one on the transport (no retry, no later step),
\* communicate has returned Error::Other with that io::Error, smov_connect
\* has returned COMMUNICATION with its OS error code (0 if none), and no
\* worker, channel or handle exists; and the handshake returns Error::Other
\* in no other case.
C9_HandshakeIoFailure ==
    /\ \A i \in 1..Len(io) :
          (i <= HandshakeOps /\ ~io[i].ok) =>
              /\ i = Len(io)
              /\ hpc = "failed"
              /\ cerr.kind = "Other"
              /\ cerr.e \in IoErrors
              /\ connRes = error_t("COMMUNICATION", unwrap_or_0(cerr.e))
              /\ NothingProduced
    /\ cerr.kind = "Other" => (io # <<>> /\ ~Last(io).ok)

\* C9 witness: the write of the rejection byte failed with EPIPE.
C9_Witness ==
    /\ Len(io) = 4
    /\ version # 0
    /\ io[4] = WriteOp(<<>>, FALSE)
    /\ cerr = Other(<<32>>)
    /\ connRes = error_t("COMMUNICATION", 32)

\* C10: whenever a worker, a channel, a sender or handle given to the
\* caller, a smov_set_speed call or a transport operation beyond the
\* handshake exists, the handshake has completed: "smov" written, "smov"
\* read, version 0 read, acknowledgement 0x00 written, in that order.  Until
\* then nothing but the handshake's operations is on the transport, and a
\* send happens only after smov_connect has returned.
C10_HandshakeFirst ==
    /\ (\/ wpc # "none"
        \/ Len(io) > HandshakeOps
        \/ sent # <<>>
        \/ chan # <<>>
        \/ txAlive
        \/ rxAlive
        \/ senderOut # "unwritten"
        \/ handleOut # "unwritten") =>
          /\ Ready
          /\ Len(io) >= HandshakeOps
          /\ io[1] = WriteOp(MAGIC, TRUE)
          /\ io[2] = ReadOp(MAGIC, TRUE)
          /\ io[3] = ReadOp(<<0, 0>>, TRUE)
          /\ io[4] = WriteOp(<<0>>, TRUE)
    /\ ~Ready => WrittenBytes(io) \in
          {SubSeq(MAGIC \o <<b>>, 1, k) : b \in {0, 1}, k \in 0..5}
    /\ sent # <<>> => hpc = "returned"

\* C10 witness: a command frame was written, after the complete handshake.
C10_Witness ==
    /\ sent # <<>>
    /\ Len(io) > HandshakeOps
    /\ Len(Last(io).data) = 3
    /\ WrittenBytes(SubSeq(io, 1, HandshakeOps)) = MAGIC \o <<0>>

\* C11: smov_set_speed returned false exactly for the calls made after the
\* worker had terminated (its receiver dropped): false only then, and always
\* then.  A call is never blocked on the worker (with a valid sender it can
\* always be made, whatever the worker is doing), it queues its value exactly
\* when it returns true, and it changes neither the worker's position nor its
\* result; the result of a terminated worker never changes.
C11_SendResult ==
    /\ [](\A i \in 1..Len(sent) : sent[i].ok <=> ~sent[i].done)
    /\ []((wpc = "done") <=> (Ready /\ ~rxAlive))
    /\ []((senderOut = "boxed" /\ Len(sent) < MaxSends) =>
             ENABLED smov_set_speed)
    /\ [][sent' # sent =>
             /\ wpc' = wpc
             /\ wres' = wres
             /\ io' = io
             /\ chan' = (IF Last(sent').ok
                           THEN Append(chan, Last(sent').val)
                           ELSE chan)]_vars
    /\ [][wpc = "done" => (wpc' = "done" /\ wres' = wres)]_vars

\* C11 witness: one send was accepted, the worker terminated with
\* InvalidSpeed, and a later send returned false.
C11_Witness ==
    /\ Len(sent) >= 2
    /\ sent[1].ok
    /\ ~Last(sent).ok
    /\ wres = InvalidSpeed

\* C12: the error_t smov_get_error returns for a worker that panicked (join
\* returned Err) differs from the error_t it returns for every result of a
\* worker that returned, in particular for Error::Other carrying an io::Error
\* without OS error code.
C12_PanicDistinct ==
    \A i \in 1..Len(jr), k \in 1..Len(jr) :
        (/\ jr[i] # NoError_t
         /\ jr[k] # NoError_t
         /\ jh[i].panic
         /\ ~jh[k].panic) => jr[i] # jr[k]

\* The error_t values smov_get_error returns for a worker that returned.
WorkerOutcomes == {get_error(JoinOk(r)) : r \in WorkerResults}

\* C13: a second smov_get_error on the same handle is detected: the thread
\* handle is joined at most once, and what the second call returns is an
\* error_t that is neither the first result again nor any outcome of a
\* worker that returned.
C13_SecondAwaitDetected ==
    /\ joins <= 1
    /\ getRes2 # NoError_t =>
          /\ getRes2 # Aborted
          /\ getRes2 # getRes
          /\ getRes2 \notin WorkerOutcomes

\* C14: when smov_free_devices has returned for an array of n strings, each
\* of the n strings was released exactly once and the array allocation was
\* released with the n + 1 slots it was allocated with; no string is ever
\* released twice and the call never aborts.
C14_FreeExact ==
    /\ \A i \in 1..Len(frees) : frees[i] <= 1
    /\ dpc # "aborted"
    /\ dpc = "freed" =>
          /\ \A i \in 1..Len(frees) : frees[i] = 1
          /\ arrayFreed = << devices.slots >>

\* Big-endian signed 16-bit decoding of two bytes (the device's side).
i16_from_be_bytes(b) ==
    LET u == b[1] * 256 + b[2] IN IF u >= 32768 THEN u - 65536 ELSE u

\* C16: for every i16 speed v the frame the worker builds is the 3 bytes
\* <<1, hi, lo>> with hi and lo bytes and hi * 256 + lo = v mod 2^16; for
\* v = -1 it is <<1, 255, 255>>; and decoding hi, lo as a big-endian signed
\* 16-bit integer gives v back.
C16_FrameRoundTrip ==
    cframe # <<>> =>
        /\ Len(cframe) = 3
        /\ cframe[1] = 1
        /\ cframe[2] \in 0..255
        /\ cframe[3] \in 0..255
        /\ cframe[2] * 256 + cframe[3] = cv % 65536
        /\ i16_from_be_bytes(SubSeq(cframe, 2, 3)) = cv
        /\ cv = -1 => cframe = <<1, 255, 255>>

\* C16 witness: the frame of -1.
C16_Witness ==
    /\ cv = -1
    /\ cframe = <<1, 255, 255>>

\* C15: no boundary operation lets a panic leave it: smov_connect never
\* panics (also for a device path that is not valid UTF-8), and neither does
\* smov_list_devices (also for a port name that is no C string); every call
\* returns a value.
C15_NoFaultCrosses ==
    /\ hpc # "panicked"
    /\ dpc # "panicked"
    /\ (path # "" /\ ~ValidUtf8(path)) => connRes # NoError_t

\* The frames of the values whose smov_set_speed returned true, in the order
\* of the calls.
AcceptedFrames ==
    LET acc == SelectSeq(sent, LAMBDA r : r.ok)
    IN [i \in 1..Len(acc) |-> CommandFrame(acc[i].val)]
\* The command frames written completely to the transport, in order.
WrittenFrames ==
    LET ws == SelectSeq(WorkerOps,
                        LAMBDA o : o.op = "w" /\ o.ok /\ Len(o.data) = 3)
    IN [i \in 1..Len(ws) |-> ws[i].data]
\* The frames of the values still queued.
QueuedFrames == [i \in 1..Len(chan) |-> CommandFrame(chan[i])]
\* The frame of the value the worker has received and not yet written.
InFlightFrame == IF wpc = "cmd_write" THEN << CommandFrame(speed) >> ELSE <<>>

IsPrefix(s, t) == Len(s) <= Len(t) /\ SubSeq(t, 1, Len(s)) = s
IsSuffix(s, t) == Len(s) <= Len(t) /\ SubSeq(t, Len(t) - Len(s) + 1, Len(t)) = s

\* C17: the command frames written to the transport are, in order, a prefix
\* of the frames of the values whose send returned true: none is lost before
\* a later one is written, none duplicated, none reordered, none merged; and
\* the values still queued are the accepted values that follow them.  While
\* the worker runs, accepted = written, then in flight, then queued.
C17_Fifo ==
    /\ IsPrefix(WrittenFrames, AcceptedFrames)
    /\ IsSuffix(QueuedFrames, AcceptedFrames)
    /\ Len(WrittenFrames) + Len(QueuedFrames) <= Len(AcceptedFrames)
    /\ wpc # "done" =>
          AcceptedFrames = WrittenFrames \o InFlightFrame \o QueuedFrames

\* C17 witness: the frames of 300 and of -1 were written in the order sent,
\* with a heartbeat between them.
C17_Witness ==
    /\ Len(WorkerOps) >= 5
    /\ WorkerOps[1] = WriteOp(<<1, 1, 44>>, TRUE)
    /\ WorkerOps[3] = WriteOp(<<0>>, TRUE)
    /\ WorkerOps[5] = WriteOp(<<1, 255, 255>>, TRUE)
    /\ sent[1].val = 300
    /\ sent[2].val = -1

\* The worker operations i that are failures: an io::Error, or a response
\* other than 0x00.
IsFailure(i) ==
    \/ ~WorkerOps[i].ok
    \/ WorkerOps[i].op = "r" /\ WorkerOps[i].data # <<0>>

\* The last two worker operations are a complete exchange whose request was
\* accepted by pred and whose response was not 0x00.
RejectedExchange(pred(_)) ==
    /\ Len(WorkerOps) >= 2
    /\ Last(WorkerOps).op = "r"
    /\ Last(WorkerOps).ok
    /\ Last(WorkerOps).data # <<0>>
    /\ WorkerOps[Len(WorkerOps) - 1].op = "w"
    /\ WorkerOps[Len(WorkerOps) - 1].ok
    /\ pred(WorkerOps[Len(WorkerOps) - 1].data)

IsCommandFrame(d) == Len(d) = 3 /\ d[1] = 1
IsHeartbeatFrame(d) == d = HeartbeatFrame

\* C18: every failure of the worker loop is terminal.  A failing operation
\* (io::Error or non-zero response) is the last operation on the transport
\* and the worker has returned an error; once the worker has returned,
\* nothing is written or read any more, its result stays, and what was
\* queued stays queued and unwritten although its send returned true.
\* InvalidSpeed is returned exactly after a rejected command exchange,
\* Disconnected exactly after a rejected heartbeat exchange, Error::Other
\* exactly after an io::Error.
C18_FailureTerminal ==
    /\ [][wpc = "done" =>
             (wpc' = "done" /\ wres' = wres /\ io' = io /\ chan' = chan)]_vars
    /\ [](\A i \in 1..Len(WorkerOps) :
             IsFailure(i) =>
                 /\ i = Len(WorkerOps)
                 /\ wpc = "done"
                 /\ wres \in {InvalidSpeed, Disconnected} \cup
                             {Other(e) : e \in IoErrors})
    /\ [](wres = InvalidSpeed <=> RejectedExchange(IsCommandFrame))
    /\ [](wres = Disconnected <=> RejectedExchange(IsHeartbeatFrame))
    /\ [](wres.kind = "Other" <=>
             (WorkerOps # <<>> /\ ~Last(WorkerOps).ok))
    /\ []((wpc = "done" /\ wres # OkUnit) =>
             /\ IsSuffix(QueuedFrames, AcceptedFrames)
             /\ Len(WrittenFrames) + Len(QueuedFrames) <= Len(AcceptedFrames))

\* C18 witness: a command was rejected with 0xFF while another command,
\* whose send returned true, was queued; it stays queued and unwritten.
C18_Witness ==
    /\ wpc = "done"
    /\ wres = InvalidSpeed
    /\ chan # <<>>
    /\ \A i \in 1..Len(sent) : sent[i].ok
    /\ Len(WrittenFrames) + Len(chan) = Len(sent)
    /\ Last(io) = ReadOp(<<255>>, TRUE)

\* C19: the worker observes the closed channel only with an empty queue.
\* When it has returned Ok(()), the sender is gone, nothing is queued, and
\* every value whose send returned true has been written, in order; the
\* values pending at the release were written after the release.
C19_DropKeepsQueue ==
    /\ [](wres = OkUnit =>
             /\ wpc = "done"
             /\ ~txAlive
             /\ released # <<>>
             /\ chan = <<>>
             /\ WrittenFrames = AcceptedFrames
             /\ AllAnsweredZero
             /\ Len(io) >= released[1].ops + 2 * released[1].pending)
    /\ [][(wpc = "recv" /\ wpc' = "done") =>
             (chan = <<>> /\ ~txAlive /\ wres' = OkUnit)]_vars
    /\ [][(wpc = "recv" /\ chan # <<>> /\ wpc' # wpc) =>
             (wpc' = "cmd_write" /\ speed' = Head(chan)
              /\ chan' = Tail(chan))]_vars

\* C19 witness: the sender was released with two commands pending and the
\* worker at its receive; both frames were written after the release, then
\* the worker returned Ok(()).
C19_Witness ==
    /\ released # <<>>
    /\ released[1].pending = 2
    /\ released[1].wpc = "recv"
    /\ Len(io) = released[1].ops + 4
    /\ Len(WrittenFrames) >= 2
    /\ wres = OkUnit

\* The caller is inside the handshake with the port open.
CallerOwns ==
    hpc \in {"opened", "id_sent", "id_ok", "ver_read", "rejecting", "acked"}
\* The worker is running.
WorkerOwns == wpc \notin {"none", "done"}

\* C20: the port is open exactly while it has an owner, and it never has
\* two: the caller from open to spawn (or to the failure of the handshake),
\* then the worker until it returns.  Every transport operation is made by
\* the owner of the moment: by a step of the caller before the spawn, by a
\* step of the worker after it.  A worker is spawned once, from the
\* acknowledged handshake, and never again.  In every terminal state (the
\* handshake failed after the open, or the worker returned) the port is
\* closed, and it stays closed.
C20_ExclusiveOwnership ==
    /\ [](~(CallerOwns /\ WorkerOwns))
    /\ []((port = "open") <=> (CallerOwns \/ WorkerOwns))
    /\ [][io' # io =>
             /\ port = "open"
             /\ \/ CallerOwns /\ hpc' # hpc /\ wpc' = wpc
                \/ WorkerOwns /\ wpc' # wpc /\ hpc' = hpc]_vars
    /\ [][(wpc = "none" /\ wpc' # "none") =>
             (hpc = "acked" /\ hpc' = "spawned" /\ wpc' = "recv")]_vars
    /\ [][wpc # "none" => wpc' # "none"]_vars
    /\ [][Ready => Ready']_vars
    /\ []((hpc = "failed" /\ port # "open_failed") => port = "closed")
    /\ [](wpc = "done" => port = "closed")
    /\ [][port = "closed" => port' = "closed"]_vars

\* C20 witness: the worker returned after two exchanges and the port is
\* closed.
C20_Witness ==
    /\ wpc = "done"
    /\ Len(WorkerOps) >= 4
    /\ port = "closed"
    /\ hpc = "returned"

=============================================================================
